---- MODULE Spec2Model ----
(***************************************************************************)
(* Authentication and session lifecycle core of the game backend           *)
(* (src/server/auth.py, src/server/main.py, src/server/models.py).         *)
(*                                                                         *)
(* The persistent store holds three tables: user, usersession and          *)
(* passwordresettoken.  Every request handler opens its own ORM session    *)
(* (`with Session(engine) as session`), so a handler works on the rows it  *)
(* has loaded and the store changes only at a session.commit(); a handler  *)
(* that raises before committing leaves the store as it was (the session   *)
(* is closed, the pending changes are rolled back).  A commit writes the   *)
(* columns whose value differs from the loaded one and expires the loaded  *)
(* rows, so the next attribute access reads the row again.                 *)
(*                                                                         *)
(* Handlers run in a pool of workers against the one store.  One step of   *)
(* the model is one statement against the store (a SELECT or a commit)     *)
(* together with the Python code that follows it up to the next statement. *)
(* A function that selects rows and commits its change to them right away  *)
(* (blacklist_refresh_token, mark_password_reset_token_as_used, the two     *)
(* sweeps) is one step: its write does not depend on what it read.         *)
(* Time is in minutes; the clock only advances to instants stored as a     *)
(* deadline (an expiry or a lock end), which is where comparisons change.  *)
(***************************************************************************)
EXTENDS Integers, FiniteSets, Sequences, TLC

\* ------------------------------------------------------------------ bounds
\* Refresh tokens (uuid4 strings) that may be minted in one behaviour.
MaxSessions == 3
\* Password-reset tokens that may be minted in one behaviour.
MaxResetTokens == 2
\* Advances of the clock in one behaviour.
MaxAdvances == 2
\* Requests the pool takes in one behaviour when it serves them concurrently.
MaxRequests == 4
\* Access tokens issued in one behaviour of the token functions alone.
MaxTokens == 2

\* ------------------------------------------------------- program constants
ACCESS_TOKEN_EXPIRE_MINUTES == 30
REFRESH_TOKEN_EXPIRE_DAYS == 7
DEFAULT_MAX_LOGIN_ATTEMPTS == 5
LOCKOUT_DURATION_MINUTES == 15
PASSWORD_RESET_TOKEN_EXPIRE_HOURS == 1

\* timedelta(days=d), timedelta(hours=h) in minutes
MinutesOfDays(d) == d * 24 * 60
MinutesOfHours(h) == h * 60

\* MAX_LOGIN_ATTEMPTS = int(os.getenv("MAX_LOGIN_ATTEMPTS", "5")): the values
\* the environment may configure that are told apart here are the smallest
\* threshold and the default.
MaxLoginAttemptsEnv == {1, DEFAULT_MAX_LOGIN_ATTEMPTS}

\* None (a NULL column, an absent value)
NULL == -1

Workers == {"w1", "w2"}
\* The registered accounts; a user's id and email are one name here, and its
\* username is that name until a profile update changes it.
Users == {"alice", "bob"}
\* A username / email no account has.
NoUser == "nobody"
Passwords == {"pw1", "pw2"}
\* The password every account is registered with.
RegisteredPassword == "pw1"

VARIABLES
    MAX_LOGIN_ATTEMPTS,     \* configuration read at import (auth.py:23)
    users,                  \* table user: id -> row
    user_sessions,          \* table usersession: set of rows
    password_reset_tokens,  \* table passwordresettoken: set of rows
    next_session,           \* refresh tokens minted so far + 1 (uuid4 is fresh)
    next_reset,             \* reset tokens minted so far + 1
    clock,                  \* datetime.utcnow(), in minutes
    advances,               \* clock advances made
    requests,               \* requests the pool has taken so far
    pc,                     \* worker -> position in its handler
    loc,                    \* worker -> the handler's locals and ORM session
    resp,                   \* the response the last step sent (NoResp: none), with what was observed
    lineage,                \* history: refresh token -> the login token it descends from
    rot,                    \* history: refresh token -> outcomes of presenting it
    fails,                  \* history: user -> run of wrong-password logins
    usernames,              \* column user.username: id -> username
    access_tokens,          \* the access tokens clients hold
    reset_done              \* history: reset tokens that completed a reset

vars == <<MAX_LOGIN_ATTEMPTS, users, user_sessions, password_reset_tokens,
          next_session, next_reset, clock, advances, requests, pc, loc,
          resp, lineage, rot, fails, usernames, access_tokens, reset_done>>

\* ---------------------------------------------------------------- helpers
Min(a, b) == IF a <= b THEN a ELSE b

\* pwd_context.hash / pwd_context.verify: a digest is made from the plaintext
\* and verifies exactly the plaintext it was made from.
get_password_hash(password) == <<"bcrypt", password>>

verify_password_plain(plain_password, hashed_password) ==
    hashed_password = plain_password

verify_password(plain_password, hashed_password) ==
    hashed_password = <<"bcrypt", plain_password>>

\* User(username, email, hashed_password) with the column defaults of models.py
NewUser(password) ==
    [hashed_password |-> get_password_hash(password),
     is_active |-> TRUE,
     failed_login_attempts |-> 0,
     locked_until |-> NULL,
     last_login |-> NULL]

\* session.commit() of a loaded row: the UPDATE sets the columns whose value
\* differs from the one loaded; the other columns keep what the store holds.
Flush(stored, loaded, current) ==
    [f \in DOMAIN stored |->
        IF current[f] # loaded[f] THEN current[f] ELSE stored[f]]

\* ----------------------------------------------------- account lockout
is_account_locked_never(user, now) ==
    FALSE

is_account_locked(user, now) ==
    user.locked_until # NULL /\ user.locked_until > now

\* The row as unlock_account_if_expired leaves it in memory; it commits (and
\* returns True) exactly when the row changed.
unlock_account_never(user, now) ==
    user

unlock_account_if_expired(user, now) ==
    IF user.locked_until # NULL /\ user.locked_until <= now
    THEN [user EXCEPT !.locked_until = NULL, !.failed_login_attempts = 0]
    ELSE user

\* Whether check_and_handle_account_lockout locks (and commits).
lockout_reached(user, max_attempts) ==
    user.failed_login_attempts >= max_attempts

check_and_handle_account_lockout(user, now, max_attempts) ==
    IF lockout_reached(user, max_attempts)
    THEN [user EXCEPT !.locked_until = now + LOCKOUT_DURATION_MINUTES]
    ELSE user

\* ----------------------------------------------------- refresh sessions
\* create_user_session: the row it inserts
NewSession(user_id, token, now) ==
    [refresh_token |-> token,
     user_id |-> user_id,
     expires_at |-> now + MinutesOfDays(REFRESH_TOKEN_EXPIRE_DAYS),
     is_active |-> TRUE]

create_user_session(sessions, user_id, token, now) ==
    sessions \cup {NewSession(user_id, token, now)}

\* The rows the SELECT of validate_refresh_token matches (none or one).
validate_refresh_token_any_state(sessions, refresh_token, now) ==
    {s \in sessions : s.refresh_token = refresh_token /\ s.expires_at > now}

validate_refresh_token(sessions, refresh_token, now) ==
    {s \in sessions : /\ s.refresh_token = refresh_token
                      /\ s.is_active
                      /\ s.expires_at > now}

\* Whether blacklist_refresh_token finds the row (its return value).
blacklist_found(sessions, refresh_token) ==
    \E s \in sessions : s.refresh_token = refresh_token

blacklist_every_session_of_user(sessions, refresh_token) ==
    {IF \E r \in sessions : r.refresh_token = refresh_token /\ r.user_id = s.user_id
     THEN [s EXCEPT !.is_active = FALSE] ELSE s
        : s \in sessions}

blacklist_refresh_token_toggle(sessions, refresh_token) ==
    {IF s.refresh_token = refresh_token THEN [s EXCEPT !.is_active = ~@] ELSE s
        : s \in sessions}

blacklist_refresh_token(sessions, refresh_token) ==
    {IF s.refresh_token = refresh_token THEN [s EXCEPT !.is_active = FALSE] ELSE s
        : s \in sessions}

cleanup_expired_and_revoked_sessions(sessions, now) ==
    {s \in sessions : s.is_active /\ ~(s.expires_at <= now)}

cleanup_expired_sessions(sessions, now) ==
    {s \in sessions : ~(s.expires_at <= now)}

cleanup_count(sessions, now) ==
    Cardinality({s \in sessions : s.expires_at <= now})

\* ----------------------------------------------------- access tokens
\* A bearer string as jwt.decode sees it: whether it has the structure of a
\* JWT, the key its signature was made with, and the sub and exp claims of its
\* payload (sub = NoSubject: the payload has no sub).
ServerKey == "SECRET_KEY"
NoSubject == "None"
NoToken == [form |-> "none", key |-> "none", sub |-> NoSubject, exp |-> NULL]

\* create_access_token(data = {"sub": sub}, expires_delta): a timedelta of
\* zero is false in Python, like None, and takes the default lifetime.
create_access_token_eternal(sub, expires_delta, now) ==
    [form |-> "jwt", key |-> ServerKey, sub |-> sub, exp |-> now + MinutesOfDays(365)]

create_access_token(sub, expires_delta, now) ==
    [form |-> "jwt", key |-> ServerKey, sub |-> sub,
     exp |-> IF expires_delta # NULL /\ expires_delta # 0
             THEN now + expires_delta
             ELSE now + ACCESS_TOKEN_EXPIRE_MINUTES]

\* jwt.decode(token, SECRET_KEY, algorithms=[ALGORITHM]): the payload, or none
\* when it raises JWTError (structure, signature, or exp earlier than now).
jwt_decode_any_time(token, now) ==
    {[sub |-> t.sub, exp |-> t.exp] : t \in {t \in {token} : t.form = "jwt" /\ t.key = ServerKey}}

jwt_decode(token, now) ==
    {[sub |-> t.sub, exp |-> t.exp] :
        t \in {t \in {token} : t.form = "jwt" /\ t.key = ServerKey /\ ~(t.exp < now)}}

\* SELECT the user WHERE username == ...: its id, or NoUser.
user_by_username(names, username) ==
    IF \E u \in Users : names[u] = username
    THEN CHOOSE u \in Users : names[u] = username
    ELSE NoUser

\* ------------------------------------------------------- handler state
NoRow == NewUser(RegisteredPassword)

\* A handler's locals: its inputs, the rows its ORM session holds (user: the
\* attribute values in memory, loaded: the values as read, expired: a commit
\* has expired them) and what was observed of the store when it started
\* (minted: the next refresh token when a reset committed the new password).
LocInit ==
    [op |-> "none", uid |-> NoUser, password |-> RegisteredPassword,
     user |-> NoRow, loaded |-> NoRow, expired |-> FALSE,
     token |-> NULL, issued |-> NULL, rows |-> {},
     pre |-> NoRow, lock_expired |-> FALSE, valid |-> FALSE,
     prior_fails |-> 0, window_until |-> 0,
     overlap |-> {}, peer_wrong |-> FALSE, peer_base |-> 0, sess_pre |-> {},
     access |-> NoToken, access_at |-> NULL, new_username |-> NoUser,
     minted |-> 0]

NoResp ==
    [worker |-> "none", op |-> "none", kind |-> "none", detail |-> "none",
     remaining |-> 0, uid |-> NoUser, pw_ok |-> FALSE, wrong_pw |-> FALSE,
     token |-> NULL, issued |-> NULL,
     pre |-> NoRow, post |-> NoRow, lock_expired |-> FALSE,
     prior_fails |-> 0, in_window |-> FALSE, peer_wrong |-> FALSE, base |-> 0,
     rows |-> {}, sess_pre |-> {}, sess_post |-> {}, access |-> NoToken,
     access_at |-> NULL, sub |-> NoSubject, minted |-> 0]

\* The response of worker w, whose handler's locals are l, with the rows of
\* the store as the response leaves them.
Reply(w, l, kind, detail, us, ss) ==
    [NoResp EXCEPT
        !.worker = w, !.op = l.op, !.kind = kind, !.detail = detail, !.uid = l.uid,
        !.pw_ok = (l.uid \in Users /\ l.password = l.pre.hashed_password[2]),
        !.token = l.token, !.issued = l.issued,
        !.pre = l.pre, !.post = (IF l.uid \in Users THEN us[l.uid] ELSE NoRow),
        !.lock_expired = l.lock_expired,
        !.prior_fails = l.prior_fails, !.in_window = (clock < l.window_until),
        !.peer_wrong = l.peer_wrong,
        !.base = Min(l.pre.failed_login_attempts, l.peer_base),
        !.rows = l.rows, !.sess_pre = l.sess_pre, !.sess_post = ss,
        !.access = l.access, !.access_at = l.access_at, !.minted = l.minted]

LoginPcs == {"login_unlock", "login_verify", "login_lock", "login_lock_reply",
             "login_create", "login_cleanup"}

\* The worker that serves the requests when they run one after another.
SeqWorker == "w1"

\* The row a handler sees when it next reads an attribute of its user.
Current(l) == IF l.expired THEN users[l.uid] ELSE l.user
CurrentLoaded(l) == IF l.expired THEN users[l.uid] ELSE l.loaded

\* The usernames requests carry: the registered ones and one more.
Usernames == Users \cup {"carol"}

\* The accounts the store may hold deactivated (is_active = false) when the
\* server starts: none, or one of the two.
InactiveAtStart == {{}, {"bob"}}

Init ==
    /\ MAX_LOGIN_ATTEMPTS \in MaxLoginAttemptsEnv
    /\ \E inactive \in InactiveAtStart :
          users = [u \in Users |->
                     [NewUser(RegisteredPassword) EXCEPT !.is_active = (u \notin inactive)]]
    /\ user_sessions = {}
    /\ password_reset_tokens = {}
    /\ next_session = 1
    /\ next_reset = 1
    /\ clock = 0
    /\ advances = 0
    /\ requests = 0
    /\ pc = [w \in Workers |-> "idle"]
    /\ loc = [w \in Workers |-> LocInit]
    /\ resp = NoResp
    /\ lineage = <<>>
    /\ rot = <<>>
    /\ fails = [u \in Users |-> [n |-> 0, until |-> 0]]
    /\ usernames = [u \in Users |-> u]
    /\ access_tokens = <<>>
    /\ reset_done = {}

\* ------------------------------------------------------------------ clock
\* The instants stored as a deadline.
Deadlines ==
    {users[u].locked_until : u \in Users}
        \cup {s.expires_at : s \in user_sessions}
        \cup {t.expires_at : t \in password_reset_tokens}
        \cup UNION {{t.exp, t.exp + 1} : t \in DOMAIN access_tokens}

AdvanceClock ==
    /\ advances < MaxAdvances
    /\ \E d \in Deadlines :
        /\ d > clock
        /\ clock' = d
    /\ advances' = advances + 1
    /\ resp' = NoResp
    /\ UNCHANGED <<MAX_LOGIN_ATTEMPTS, usernames, access_tokens, reset_done, users, user_sessions, password_reset_tokens,
                   next_session, next_reset, requests, pc, loc, lineage, rot, fails>>

\* -------------------------------------------------- POST /token (login)
\* Sessions a new request may still mint: every login or refresh in flight
\* mints at most one.
Minting == {w \in Workers : loc[w].op \in {"login", "refresh"}}
CanMint == next_session + Cardinality(Minting) <= MaxSessions

\* main.py 207-215: SELECT the user by username.
Login_Select(w, username, password) ==
    /\ pc[w] = "idle"
    /\ CanMint
    /\ IF user_by_username(usernames, username) = NoUser
       THEN /\ resp' = Reply(w, [LocInit EXCEPT !.op = "login", !.password = password],
                             "InvalidCredential", "Incorrect username or password",
                             users, user_sessions)
            /\ UNCHANGED <<pc, loc>>
       ELSE LET uid == user_by_username(usernames, username)
                peers == {v \in Workers \ {w} :
                            pc[v] \in LoginPcs /\ loc[v].uid = uid}
                row == users[uid]
            IN  /\ loc' = [v \in Workers |->
                     IF v = w
                     THEN [LocInit EXCEPT
                             !.op = "login", !.uid = uid, !.password = password,
                             !.user = row, !.loaded = row, !.pre = row,
                             !.lock_expired = (row.locked_until # NULL
                                                /\ row.locked_until <= clock),
                             !.prior_fails = fails[uid].n,
                             !.window_until = fails[uid].until,
                             !.overlap = peers,
                             !.peer_base = row.failed_login_attempts]
                     ELSE IF v \in peers
                          THEN [loc[v] EXCEPT !.overlap = @ \cup {w}]
                          ELSE loc[v]]
                /\ pc' = [pc EXCEPT ![w] = "login_unlock"]
                /\ resp' = NoResp
    /\ UNCHANGED <<MAX_LOGIN_ATTEMPTS, usernames, access_tokens, reset_done, users, user_sessions, password_reset_tokens,
                   next_session, next_reset, clock, advances, lineage, rot, fails>>

\* main.py 218 / auth.py 168-181: unlock_account_if_expired, committed when the
\* lock had expired.
Login_Unlock(w) ==
    /\ pc[w] = "login_unlock"
    /\ LET l == loc[w]
           u == unlock_account_if_expired(l.user, clock)
           unlocked == u # l.user
       IN  /\ users' = [users EXCEPT ![l.uid] =
                   IF unlocked THEN Flush(@, l.loaded, u) ELSE @]
           /\ loc' = [loc EXCEPT ![w].user = u, ![w].expired = unlocked]
           /\ fails' = [fails EXCEPT ![l.uid].n = IF unlocked THEN 0 ELSE @]
    /\ pc' = [pc EXCEPT ![w] = "login_verify"]
    /\ resp' = NoResp
    /\ UNCHANGED <<MAX_LOGIN_ATTEMPTS, usernames, access_tokens, reset_done, user_sessions, password_reset_tokens,
                   next_session, next_reset, clock, advances, requests, lineage, rot>>

\* main.py 251-254: what a verified password sets on the row.
LoginSuccessKeepsCounter(user, now) ==
    [user EXCEPT !.last_login = now]

LoginSuccessUpdate(user, now) ==
    [user EXCEPT !.failed_login_attempts = 0, !.locked_until = NULL,
                 !.last_login = now]

\* The locals of the pool once worker w has answered a wrong password: w's
\* handler is over, and the logins of the same user that overlapped it and
\* are still running have a peer that counted a wrong password.
AfterWrongPassword(w) ==
    [v \in Workers |->
        IF v = w THEN LocInit
        ELSE IF v \in loc[w].overlap /\ pc[v] \in LoginPcs /\ loc[v].uid = loc[w].uid
             THEN [loc[v] EXCEPT
                     !.peer_wrong = TRUE,
                     !.peer_base = Min(@, loc[w].pre.failed_login_attempts)]
             ELSE loc[v]]

\* main.py 221-255: the lock check, then the password check.  A wrong password
\* below the threshold raises with nothing committed: the session is closed
\* and the incremented counter is dropped with it.
Login_Verify(w) ==
    /\ pc[w] = "login_verify"
    /\ LET l == loc[w]
           u == Current(l)
           seen == [l EXCEPT !.user = u, !.loaded = CurrentLoaded(l), !.expired = FALSE]
           bumped == [u EXCEPT !.failed_login_attempts = @ + 1]
           run == Min(fails[l.uid].n + 1, MAX_LOGIN_ATTEMPTS)
       IN  IF is_account_locked(u, clock)
           THEN /\ resp' = Reply(w, l, "AccountLocked", "Account temporarily locked",
                                 users, user_sessions)
                /\ pc' = [pc EXCEPT ![w] = "idle"]
                /\ loc' = [loc EXCEPT ![w] = LocInit]
                /\ UNCHANGED fails
           ELSE IF ~verify_password(l.password, u.hashed_password)
           THEN /\ fails' = [fails EXCEPT ![l.uid] =
                        [n |-> run,
                         until |-> IF run >= MAX_LOGIN_ATTEMPTS
                                   THEN clock + LOCKOUT_DURATION_MINUTES
                                   ELSE @.until]]
                /\ IF lockout_reached(bumped, MAX_LOGIN_ATTEMPTS)
                   THEN /\ loc' = [loc EXCEPT ![w] = [seen EXCEPT !.user = bumped]]
                        /\ pc' = [pc EXCEPT ![w] = "login_lock"]
                        /\ resp' = NoResp
                   ELSE /\ resp' =
                             [Reply(w, l, "InvalidCredential",
                                    "Incorrect username or password. N attempt(s) remaining",
                                    users, user_sessions)
                              EXCEPT !.wrong_pw = TRUE,
                                     !.remaining = MAX_LOGIN_ATTEMPTS
                                                     - bumped.failed_login_attempts]
                        /\ pc' = [pc EXCEPT ![w] = "idle"]
                        /\ loc' = AfterWrongPassword(w)
           ELSE /\ loc' = [loc EXCEPT ![w] =
                        [seen EXCEPT
                           !.user = LoginSuccessUpdate(u, clock),
                           !.access = create_access_token(usernames[l.uid],
                                          ACCESS_TOKEN_EXPIRE_MINUTES, clock),
                           !.access_at = clock]]
                /\ pc' = [pc EXCEPT ![w] = "login_create"]
                /\ fails' = [fails EXCEPT ![l.uid].n = 0]
                /\ resp' = NoResp
    /\ UNCHANGED <<MAX_LOGIN_ATTEMPTS, usernames, access_tokens, reset_done, users, user_sessions, password_reset_tokens,
                   next_session, next_reset, clock, advances, requests, lineage, rot>>

\* main.py 235 / auth.py 153-159: the threshold is reached; lock and commit.
Login_Lock(w) ==
    /\ pc[w] = "login_lock"
    /\ LET l == loc[w]
           u == check_and_handle_account_lockout(l.user, clock, MAX_LOGIN_ATTEMPTS)
       IN  /\ users' = [users EXCEPT ![l.uid] = Flush(@, l.loaded, u)]
           /\ loc' = [loc EXCEPT ![w].user = u, ![w].expired = TRUE]
    /\ pc' = [pc EXCEPT ![w] = "login_lock_reply"]
    /\ resp' = NoResp
    /\ UNCHANGED <<MAX_LOGIN_ATTEMPTS, usernames, access_tokens, reset_done, user_sessions, password_reset_tokens,
                   next_session, next_reset, clock, advances, requests, lineage,
                   rot, fails>>

\* main.py 238-248: the message is chosen from the row as read after the commit.
Login_LockReply(w) ==
    /\ pc[w] = "login_lock_reply"
    /\ LET l == loc[w]
           u == Current(l)
       IN  resp' =
              IF u.failed_login_attempts >= MAX_LOGIN_ATTEMPTS
              THEN [Reply(w, l, "AccountLocked",
                          "Account locked due to too many failed login attempts",
                          users, user_sessions)
                    EXCEPT !.wrong_pw = TRUE]
              ELSE [Reply(w, l, "InvalidCredential",
                          "Incorrect username or password. N attempt(s) remaining",
                          users, user_sessions)
                    EXCEPT !.wrong_pw = TRUE,
                           !.remaining = MAX_LOGIN_ATTEMPTS - u.failed_login_attempts]
    /\ pc' = [pc EXCEPT ![w] = "idle"]
    /\ loc' = AfterWrongPassword(w)
    /\ UNCHANGED <<MAX_LOGIN_ATTEMPTS, usernames, access_tokens, reset_done, users, user_sessions, password_reset_tokens,
                   next_session, next_reset, clock, advances, requests, lineage,
                   rot, fails>>

\* A refresh token nobody has presented yet.
NotPresented == [ok |-> 0, after |-> {}, first |-> "none", first_valid |-> FALSE]

\* main.py 255-264 / auth.py 52-66: create_user_session commits the user row
\* and the new session row together.
Login_CreateSession(w) ==
    /\ pc[w] = "login_create"
    /\ LET l == loc[w]
       IN  /\ users' = [users EXCEPT ![l.uid] = Flush(@, l.loaded, l.user)]
           /\ user_sessions' =
                 create_user_session(user_sessions, l.uid, next_session, clock)
           /\ lineage' = (next_session :> next_session) @@ lineage
           /\ rot' = (next_session :> NotPresented) @@ rot
           /\ loc' = [loc EXCEPT ![w].issued = next_session, ![w].expired = TRUE]
    /\ next_session' = next_session + 1
    /\ pc' = [pc EXCEPT ![w] = "login_cleanup"]
    /\ resp' = NoResp
    /\ UNCHANGED <<MAX_LOGIN_ATTEMPTS, usernames, access_tokens, reset_done, password_reset_tokens, next_reset, clock,
                   advances, requests, fails>>

\* main.py 267-272: cleanup_expired_sessions, then the token pair.
Login_Cleanup(w) ==
    /\ pc[w] = "login_cleanup"
    /\ user_sessions' = cleanup_expired_sessions(user_sessions, clock)
    /\ resp' = Reply(w, loc[w], "ok", "token pair", users, user_sessions')
    /\ pc' = [pc EXCEPT ![w] = "idle"]
    /\ loc' = [loc EXCEPT ![w] = LocInit]
    /\ UNCHANGED <<MAX_LOGIN_ATTEMPTS, usernames, access_tokens, reset_done, users, password_reset_tokens, next_session,
                   next_reset, clock, advances, requests, lineage, rot, fails>>

\* ------------------------------------------- POST /auth/refresh (rotation)
RefreshPcs == {"refresh_user", "refresh_blacklist", "refresh_create", "refresh_cleanup"}

\* The refresh tokens a client can present: the minted ones (1, 2, ...) and
\* one no session has (0).
RefreshTokens == 0 .. (next_session - 1)

\* What the history keeps of a presentation of token t answered with kind,
\* whose handler found the token and its user valid or not when it started.
Presented(t, kind, valid) ==
    IF t \in DOMAIN rot
    THEN [rot EXCEPT ![t] =
            [ok |-> IF kind = "ok" THEN Min(@.ok + 1, 2) ELSE @.ok,
             after |-> IF @.ok >= 1 THEN @.after \cup {kind} ELSE @.after,
             first |-> IF @.first = "none" THEN kind ELSE @.first,
             first_valid |-> IF @.first = "none" THEN valid ELSE @.first_valid]]
    ELSE rot

\* A refresh session that is active and unexpired, of a user who is active
\* and not locked: the precondition of a refresh.
Refreshable(t) ==
    \E s \in user_sessions :
        /\ s.refresh_token = t
        /\ s.is_active
        /\ s.expires_at > clock
        /\ users[s.user_id].is_active
        /\ ~(users[s.user_id].locked_until # NULL
             /\ users[s.user_id].locked_until > clock)

\* main.py 293-299: validate_refresh_token.
Refresh_Validate(w, token) ==
    /\ pc[w] = "idle"
    /\ CanMint
    /\ LET found == validate_refresh_token(user_sessions, token, clock)
           l0 == [LocInit EXCEPT !.op = "refresh", !.token = token,
                                 !.valid = Refreshable(token)]
       IN  IF found = {}
           THEN /\ resp' = Reply(w, l0, "InvalidCredential",
                                 "Invalid or expired refresh token",
                                 users, user_sessions)
                /\ rot' = Presented(token, "InvalidCredential", l0.valid)
                /\ UNCHANGED <<pc, loc>>
           ELSE /\ \E s \in found :
                     loc' = [loc EXCEPT ![w] = [l0 EXCEPT !.uid = s.user_id]]
                /\ pc' = [pc EXCEPT ![w] = "refresh_user"]
                /\ resp' = NoResp
                /\ UNCHANGED rot
    /\ UNCHANGED <<MAX_LOGIN_ATTEMPTS, usernames, access_tokens, reset_done, users, user_sessions, password_reset_tokens,
                   next_session, next_reset, clock, advances, lineage, fails>>

\* main.py 302-316: session.get(User), the active check and the lock check.
Refresh_User(w) ==
    /\ pc[w] = "refresh_user"
    /\ LET l == [loc[w] EXCEPT !.user = users[loc[w].uid], !.loaded = users[loc[w].uid],
                               !.pre = users[loc[w].uid]]
       IN  IF ~l.user.is_active
           THEN /\ resp' = Reply(w, l, "InactiveUser", "User not found or inactive",
                                 users, user_sessions)
                /\ rot' = Presented(l.token, "InactiveUser", l.valid)
                /\ pc' = [pc EXCEPT ![w] = "idle"]
                /\ loc' = [loc EXCEPT ![w] = LocInit]
           ELSE IF l.user.locked_until # NULL /\ l.user.locked_until > clock
           THEN /\ resp' = Reply(w, l, "AccountLocked", "Account temporarily locked",
                                 users, user_sessions)
                /\ rot' = Presented(l.token, "AccountLocked", l.valid)
                /\ pc' = [pc EXCEPT ![w] = "idle"]
                /\ loc' = [loc EXCEPT ![w] = LocInit]
           ELSE /\ loc' = [loc EXCEPT ![w] = l]
                /\ pc' = [pc EXCEPT ![w] = "refresh_blacklist"]
                /\ resp' = NoResp
                /\ UNCHANGED rot
    /\ UNCHANGED <<MAX_LOGIN_ATTEMPTS, usernames, access_tokens, reset_done, users, user_sessions, password_reset_tokens,
                   next_session, next_reset, clock, advances, requests, lineage, fails>>

\* main.py 319 / auth.py 80-91: blacklist_refresh_token, committed.
Refresh_Blacklist(w) ==
    /\ pc[w] = "refresh_blacklist"
    /\ user_sessions' = blacklist_refresh_token(user_sessions, loc[w].token)
    /\ loc' = [loc EXCEPT ![w].access =
                 create_access_token(usernames[loc[w].uid],
                                     ACCESS_TOKEN_EXPIRE_MINUTES, clock),
                            ![w].access_at = clock]
    /\ pc' = [pc EXCEPT ![w] = "refresh_create"]
    /\ resp' = NoResp
    /\ UNCHANGED <<MAX_LOGIN_ATTEMPTS, usernames, access_tokens, reset_done, users, password_reset_tokens, next_session,
                   next_reset, clock, advances, requests, lineage, rot, fails>>

\* main.py 328 / auth.py 52-66: create_user_session, committed.
Refresh_CreateSession(w) ==
    /\ pc[w] = "refresh_create"
    /\ LET l == loc[w]
       IN  /\ user_sessions' =
                 create_user_session(user_sessions, l.uid, next_session, clock)
           /\ lineage' = (next_session :> lineage[l.token]) @@ lineage
           /\ rot' = (next_session :> NotPresented) @@ rot
           /\ loc' = [loc EXCEPT ![w].issued = next_session]
    /\ next_session' = next_session + 1
    /\ pc' = [pc EXCEPT ![w] = "refresh_cleanup"]
    /\ resp' = NoResp
    /\ UNCHANGED <<MAX_LOGIN_ATTEMPTS, usernames, access_tokens, reset_done, users, password_reset_tokens, next_reset,
                   clock, advances, requests, fails>>

\* main.py 331-336: cleanup_expired_sessions, then the new token pair.
Refresh_Cleanup(w) ==
    /\ pc[w] = "refresh_cleanup"
    /\ user_sessions' = cleanup_expired_sessions(user_sessions, clock)
    /\ resp' = Reply(w, loc[w], "ok", "token pair", users, user_sessions')
    /\ rot' = Presented(loc[w].token, "ok", loc[w].valid)
    /\ pc' = [pc EXCEPT ![w] = "idle"]
    /\ loc' = [loc EXCEPT ![w] = LocInit]
    /\ UNCHANGED <<MAX_LOGIN_ATTEMPTS, usernames, access_tokens, reset_done, users, password_reset_tokens, next_session,
                   next_reset, clock, advances, requests, lineage, fails>>

\* ------------------------------------------------------ POST /auth/logout
\* main.py 276-285: blacklist_refresh_token; 400 when no row has the token.
Logout(w, token) ==
    /\ pc[w] = "idle"
    /\ user_sessions' = blacklist_refresh_token(user_sessions, token)
    /\ resp' = IF blacklist_found(user_sessions, token)
               THEN Reply(w, [LocInit EXCEPT !.op = "logout", !.token = token],
                          "ok", "Successfully logged out", users, user_sessions')
               ELSE Reply(w, [LocInit EXCEPT !.op = "logout", !.token = token],
                          "InvalidCredential", "Invalid refresh token",
                          users, user_sessions')
    /\ UNCHANGED <<MAX_LOGIN_ATTEMPTS, usernames, access_tokens, reset_done, users, password_reset_tokens, next_session,
                   next_reset, clock, advances, pc, loc, lineage, rot, fails>>

\* -------------------------------------------- POST /auth/cleanup-sessions
\* main.py 340-344: cleanup_expired_sessions.
CleanupSessions(w) ==
    /\ pc[w] = "idle"
    /\ cleanup_count(user_sessions, clock) > 0
    /\ user_sessions' = cleanup_expired_sessions(user_sessions, clock)
    /\ resp' = [Reply(w, [LocInit EXCEPT !.op = "cleanup"], "ok", "Cleaned up N expired sessions",
                      users, user_sessions')
                EXCEPT !.remaining = cleanup_count(user_sessions, clock)]
    /\ UNCHANGED <<MAX_LOGIN_ATTEMPTS, usernames, access_tokens, reset_done, users, password_reset_tokens, next_session,
                   next_reset, clock, advances, pc, loc, lineage, rot, fails>>

\* --------------------------------------------------- password reset tokens
\* create_password_reset_token: the row it inserts
NewResetToken(user_id, token, now) ==
    [token |-> token,
     user_id |-> user_id,
     expires_at |-> now + MinutesOfHours(PASSWORD_RESET_TOKEN_EXPIRE_HOURS),
     is_used |-> FALSE]

\* auth.py 190-196: the rows create_password_reset_token loads to invalidate.
existing_tokens_none(tokens, user_id, now) ==
    {}

existing_tokens(tokens, user_id, now) ==
    {t \in tokens : t.user_id = user_id /\ ~t.is_used /\ t.expires_at > now}

\* The rows the SELECT of validate_password_reset_token matches (none or one).
validate_password_reset_token_any_state(tokens, token, now) ==
    {t \in tokens : t.token = token /\ t.expires_at > now}

validate_password_reset_token(tokens, token, now) ==
    {t \in tokens : t.token = token /\ ~t.is_used /\ t.expires_at > now}

\* Whether mark_password_reset_token_as_used finds the row (its return value).
mark_found(tokens, token) ==
    \E t \in tokens : t.token = token

\* The UPDATE that sets is_used on the rows with these token strings.
mark_password_reset_token_as_used(tokens, ids) ==
    {IF t.token \in ids THEN [t EXCEPT !.is_used = TRUE] ELSE t : t \in tokens}

cleanup_expired_password_reset_tokens(tokens, now) ==
    {t \in tokens : ~(t.expires_at <= now)}

\* A commit that updates loaded rows the store no longer holds matches no row:
\* the ORM raises (StaleDataError), the transaction is rolled back and the
\* request ends with a server error.
StaleTokens(tokens, ids) ==
    \E i \in ids : ~mark_found(tokens, i)

StaleSessions(sessions, ids) ==
    \E i \in ids : ~blacklist_found(sessions, i)

\* A new password the policy (middleware/password_validator.py) rejects.
WeakPassword == "weak"
NewPasswords == Passwords \cup {WeakPassword}

\* validate_password_strength(...).is_valid
validate_password_strength_any(password) ==
    TRUE

validate_password_strength(password) ==
    password # WeakPassword

\* main.py 422-427: the sessions reset_password loads to deactivate.
active_sessions_of_anyone(sessions, user_id) ==
    {s \in sessions : s.is_active}

active_sessions_of(sessions, user_id) ==
    {s \in sessions : s.user_id = user_id /\ s.is_active}

\* main.py 429-433: the UPDATE that clears is_active on the loaded sessions.
deactivate_sessions(sessions, ids) ==
    {IF s.refresh_token \in ids THEN [s EXCEPT !.is_active = FALSE] ELSE s
        : s \in sessions}

\* ------------------------------------------- POST /auth/forgot-password
ForgotPcs == {"forgot_existing", "forgot_commit", "forgot_cleanup"}

\* Reset tokens a new request may still mint.
ResetMinting == {w \in Workers : loc[w].op = "forgot"}
CanMintReset == next_reset + Cardinality(ResetMinting) <= MaxResetTokens

\* main.py 352-360: the account forgot_password makes a token for: the one
\* with the email, when it is active (none or one).
reset_recipient_inactive_too(us, email) ==
    {u \in Users : u = email}

reset_recipient(us, email) ==
    {u \in Users : u = email /\ us[u].is_active}

\* main.py 350-360: SELECT the user by email; the same message whether or not
\* an active account has it.
Forgot_Select(w, email) ==
    /\ pc[w] = "idle"
    /\ CanMintReset
    /\ IF reset_recipient(users, email) = {}
       THEN /\ resp' = Reply(w, [LocInit EXCEPT !.op = "forgot", !.uid = email], "ok",
                             "If an account with that email exists, a password reset link has been sent.",
                             users, user_sessions)
            /\ UNCHANGED <<pc, loc>>
       ELSE /\ loc' = [loc EXCEPT ![w] =
                        [LocInit EXCEPT !.op = "forgot", !.uid = email,
                                        !.user = users[email], !.loaded = users[email],
                                        !.pre = users[email]]]
            /\ pc' = [pc EXCEPT ![w] = "forgot_existing"]
            /\ resp' = NoResp
    /\ UNCHANGED <<MAX_LOGIN_ATTEMPTS, usernames, access_tokens, reset_done, users, user_sessions, password_reset_tokens,
                   next_session, next_reset, clock, advances, lineage, rot, fails>>

\* auth.py 190-200: SELECT the user's unused, unexpired tokens and set is_used
\* on them in memory.
Forgot_Existing(w) ==
    /\ pc[w] = "forgot_existing"
    /\ loc' = [loc EXCEPT ![w].rows =
                  existing_tokens(password_reset_tokens, loc[w].uid, clock)]
    /\ pc' = [pc EXCEPT ![w] = "forgot_commit"]
    /\ resp' = NoResp
    /\ UNCHANGED <<MAX_LOGIN_ATTEMPTS, usernames, access_tokens, reset_done, users, user_sessions, password_reset_tokens,
                   next_session, next_reset, clock, advances, requests, lineage,
                   rot, fails>>

\* auth.py 203-215: the commit that marks the loaded tokens used and inserts
\* the new one.
Forgot_Commit(w) ==
    /\ pc[w] = "forgot_commit"
    /\ LET l == loc[w]
           ids == {t.token : t \in l.rows}
       IN  IF StaleTokens(password_reset_tokens, ids)
           THEN /\ resp' = Reply(w, l, "ServerError", "Internal Server Error",
                                 users, user_sessions)
                /\ pc' = [pc EXCEPT ![w] = "idle"]
                /\ loc' = [loc EXCEPT ![w] = LocInit]
                /\ UNCHANGED <<password_reset_tokens, next_reset>>
           ELSE /\ password_reset_tokens' =
                      mark_password_reset_token_as_used(password_reset_tokens, ids)
                          \cup {NewResetToken(l.uid, next_reset, clock)}
                /\ next_reset' = next_reset + 1
                /\ loc' = [loc EXCEPT
                             ![w].issued = next_reset,
                             ![w].window_until =
                                 clock + MinutesOfHours(PASSWORD_RESET_TOKEN_EXPIRE_HOURS)]
                /\ pc' = [pc EXCEPT ![w] = "forgot_cleanup"]
                /\ resp' = NoResp
    /\ UNCHANGED <<MAX_LOGIN_ATTEMPTS, usernames, access_tokens, reset_done, users, user_sessions, next_session, clock,
                   advances, requests, lineage, rot, fails>>

\* main.py 371-373: cleanup_expired_password_reset_tokens, then the message.
Forgot_Cleanup(w) ==
    /\ pc[w] = "forgot_cleanup"
    /\ password_reset_tokens' =
          cleanup_expired_password_reset_tokens(password_reset_tokens, clock)
    /\ resp' = Reply(w, loc[w], "ok",
                     "If an account with that email exists, a password reset link has been sent.",
                     users, user_sessions)
    /\ pc' = [pc EXCEPT ![w] = "idle"]
    /\ loc' = [loc EXCEPT ![w] = LocInit]
    /\ UNCHANGED <<MAX_LOGIN_ATTEMPTS, usernames, access_tokens, reset_done, users, user_sessions, next_session,
                   next_reset, clock, advances, requests, lineage, rot, fails>>

\* -------------------------------------------- POST /auth/reset-password
ResetPcs == {"reset_user", "reset_mark", "reset_sessions", "reset_commit"}

\* The reset tokens a client can present: the minted ones (1, 2, ...) and one
\* no row has (0).
ResetTokens == 0 .. (next_reset - 1)

\* main.py 411-414: what reset_password sets on the user row.
ResetUpdatePasswordOnly(user, new_password) ==
    [user EXCEPT !.hashed_password = get_password_hash(new_password)]

ResetUpdate(user, new_password) ==
    [user EXCEPT !.hashed_password = get_password_hash(new_password),
                 !.failed_login_attempts = 0,
                 !.locked_until = NULL]

\* main.py 381-386: validate_password_reset_token.
Reset_Validate(w, token, new_password) ==
    /\ pc[w] = "idle"
    /\ LET found == validate_password_reset_token(password_reset_tokens, token, clock)
           l0 == [LocInit EXCEPT !.op = "reset", !.token = token,
                                 !.password = new_password]
       IN  IF found = {}
           THEN /\ resp' = Reply(w, l0, "InvalidToken",
                                 "Invalid or expired password reset token",
                                 users, user_sessions)
                /\ UNCHANGED <<pc, loc>>
           ELSE /\ \E t \in found :
                     loc' = [loc EXCEPT ![w] = [l0 EXCEPT !.uid = t.user_id]]
                /\ pc' = [pc EXCEPT ![w] = "reset_user"]
                /\ resp' = NoResp
    /\ UNCHANGED <<MAX_LOGIN_ATTEMPTS, usernames, access_tokens, reset_done, users, user_sessions, password_reset_tokens,
                   next_session, next_reset, clock, advances, lineage, rot, fails>>

\* main.py 389-415: session.get(User), the active check, the password policy,
\* then the new values on the row in memory.
Reset_User(w) ==
    /\ pc[w] = "reset_user"
    /\ LET row == users[loc[w].uid]
           l == [loc[w] EXCEPT !.user = row, !.loaded = row, !.pre = row]
       IN  IF ~row.is_active
           THEN /\ resp' = Reply(w, l, "InvalidToken",
                                 "Invalid or expired password reset token",
                                 users, user_sessions)
                /\ pc' = [pc EXCEPT ![w] = "idle"]
                /\ loc' = [loc EXCEPT ![w] = LocInit]
           ELSE IF ~validate_password_strength(l.password)
           THEN /\ resp' = Reply(w, l, "PolicyViolation",
                                 "Password does not meet security requirements",
                                 users, user_sessions)
                /\ pc' = [pc EXCEPT ![w] = "idle"]
                /\ loc' = [loc EXCEPT ![w] = LocInit]
           ELSE /\ loc' = [loc EXCEPT ![w] =
                            [l EXCEPT !.user = ResetUpdate(row, l.password)]]
                /\ pc' = [pc EXCEPT ![w] = "reset_mark"]
                /\ resp' = NoResp
    /\ UNCHANGED <<MAX_LOGIN_ATTEMPTS, usernames, access_tokens, reset_done, users, user_sessions, password_reset_tokens,
                   next_session, next_reset, clock, advances, requests, lineage,
                   rot, fails>>

\* main.py 418 / auth.py 229-240: mark_password_reset_token_as_used.  Its
\* commit writes the user row with the token row; when no row has the token it
\* commits nothing and the user row stays pending.
Reset_Mark(w) ==
    /\ pc[w] = "reset_mark"
    /\ LET l == loc[w]
           found == mark_found(password_reset_tokens, l.token)
       IN  /\ users' = [users EXCEPT ![l.uid] =
                   IF found THEN Flush(@, l.loaded, l.user) ELSE @]
           /\ password_reset_tokens' =
                 IF found
                 THEN mark_password_reset_token_as_used(password_reset_tokens, {l.token})
                 ELSE password_reset_tokens
           /\ loc' = [loc EXCEPT ![w].expired = found,
                                  ![w].minted = IF found THEN next_session ELSE 0]
           /\ fails' = [fails EXCEPT ![l.uid] =
                   IF found THEN [n |-> 0, until |-> 0] ELSE @]
    /\ pc' = [pc EXCEPT ![w] = "reset_sessions"]
    /\ resp' = NoResp
    /\ UNCHANGED <<MAX_LOGIN_ATTEMPTS, usernames, access_tokens, reset_done, user_sessions, next_session, next_reset,
                   clock, advances, requests, lineage, rot>>

\* main.py 422-431: SELECT the user's active sessions and clear is_active on
\* them in memory.
Reset_Sessions(w) ==
    /\ pc[w] = "reset_sessions"
    /\ loc' = [loc EXCEPT ![w].rows = active_sessions_of(user_sessions, loc[w].uid)]
    /\ pc' = [pc EXCEPT ![w] = "reset_commit"]
    /\ resp' = NoResp
    /\ UNCHANGED <<MAX_LOGIN_ATTEMPTS, usernames, access_tokens, reset_done, users, user_sessions, password_reset_tokens,
                   next_session, next_reset, clock, advances, requests, lineage,
                   rot, fails>>

\* main.py 433-435: the commit of the deactivated sessions (and of the user
\* row when it is still pending), then the message.
Reset_Commit(w) ==
    /\ pc[w] = "reset_commit"
    /\ LET l == loc[w]
           ids == {s.refresh_token : s \in l.rows}
           seen == [l EXCEPT !.sess_pre = user_sessions]
       IN  IF StaleSessions(user_sessions, ids)
           THEN /\ resp' = Reply(w, seen, "ServerError", "Internal Server Error",
                                 users, user_sessions)
                /\ UNCHANGED <<users, user_sessions, fails, reset_done>>
           ELSE /\ user_sessions' = deactivate_sessions(user_sessions, ids)
                /\ users' = [users EXCEPT ![l.uid] =
                        IF l.expired THEN @ ELSE Flush(@, l.loaded, l.user)]
                /\ fails' = [fails EXCEPT ![l.uid] = [n |-> 0, until |-> 0]]
                /\ reset_done' = reset_done \cup {l.token}
                /\ resp' = Reply(w, seen, "ok", "Password has been successfully reset",
                                 users', user_sessions')
    /\ pc' = [pc EXCEPT ![w] = "idle"]
    /\ loc' = [loc EXCEPT ![w] = LocInit]
    /\ UNCHANGED <<MAX_LOGIN_ATTEMPTS, usernames, access_tokens, password_reset_tokens, next_session,
                   next_reset, clock, advances, requests, lineage, rot>>

\* --------------------------- get_current_user, the guard of /users/profile
ResolveOps == {"me", "profile"}
ResolvePcs == {"me_unlock", "me_check"}
ProfilePcs == {"profile_select", "profile_commit"}

\* What the history keeps of the answer to a token a client holds.
Resolved(t, kind) ==
    IF t \in DOMAIN access_tokens
    THEN [access_tokens EXCEPT ![t].seen = @ \cup {kind}]
    ELSE access_tokens

\* The client keeps the access token of the token pair it was just answered.
KeepAccessToken ==
    /\ resp.op \in {"login", "refresh"}
    /\ resp.kind = "ok"
    /\ IF resp.access \in DOMAIN access_tokens
       THEN resp.uid \notin access_tokens[resp.access].owners
       ELSE TRUE
    /\ access_tokens' =
          [t \in DOMAIN access_tokens \cup {resp.access} |->
             IF t # resp.access THEN access_tokens[t]
             ELSE IF t \in DOMAIN access_tokens
                  THEN [access_tokens[t] EXCEPT !.owners = @ \cup {resp.uid}]
                  ELSE [owners |-> {resp.uid}, seen |-> {}, at |-> resp.access_at,
                        ttl |-> ACCESS_TOKEN_EXPIRE_MINUTES]]
    /\ resp' = NoResp
    /\ UNCHANGED <<MAX_LOGIN_ATTEMPTS, usernames, reset_done, users, user_sessions,
                   password_reset_tokens, next_session, next_reset, clock, advances,
                   requests, pc, loc, lineage, rot, fails>>

\* ---------------------------------- create_access_token and jwt.decode
\* The lifetimes a token is asked with: none (NULL), zero, a minute, the
\* configured one.
TokenLifetimes == {NULL, 0, 1, ACCESS_TOKEN_EXPIRE_MINUTES}

\* auth.py 38-46 applied now to a subject and a lifetime.
IssueToken(sub, expires_delta) ==
    /\ Cardinality(DOMAIN access_tokens) < MaxTokens
    /\ LET t == create_access_token(sub, expires_delta, clock)
       IN  /\ t \notin DOMAIN access_tokens
           /\ access_tokens' =
                 [x \in DOMAIN access_tokens \cup {t} |->
                    IF x # t THEN access_tokens[x]
                    ELSE [owners |-> {}, seen |-> {}, at |-> clock,
                          ttl |-> IF expires_delta = NULL
                                  THEN ACCESS_TOKEN_EXPIRE_MINUTES
                                  ELSE expires_delta]]
           /\ resp' = [NoResp EXCEPT !.op = "issue", !.kind = "ok", !.access = t,
                                     !.access_at = clock]
    /\ UNCHANGED <<MAX_LOGIN_ATTEMPTS, usernames, reset_done, users, user_sessions,
                   password_reset_tokens, next_session, next_reset, clock, advances,
                   requests, pc, loc, lineage, rot, fails>>

\* auth.py 113-117 applied now to a token: the sub of the payload, or JWTError.
ParseToken(token) ==
    /\ LET payload == jwt_decode(token, clock)
       IN  /\ resp' = [NoResp EXCEPT
                         !.op = "parse", !.access = token,
                         !.kind = IF payload = {} THEN "JWTError" ELSE "ok",
                         !.sub = IF payload = {} THEN NoSubject
                                 ELSE (CHOOSE p \in payload : TRUE).sub]
           /\ access_tokens' = Resolved(token, IF payload = {} THEN "JWTError" ELSE "ok")
    /\ UNCHANGED <<MAX_LOGIN_ATTEMPTS, usernames, reset_done, users, user_sessions,
                   password_reset_tokens, next_session, next_reset, clock, advances,
                   requests, pc, loc, lineage, rot, fails>>

\* The bearer strings no endpoint issued: one that is no JWT, one signed with
\* another key, and one the server's key signed for a payload without sub.
ForgedTokens ==
    {[NoToken EXCEPT !.form = "garbage"],
     [form |-> "jwt", key |-> "other", sub |-> "alice", exp |-> MinutesOfDays(365)],
     create_access_token(NoSubject, NULL, 0)}

\* auth.py 106-129: decode the token, SELECT the user its sub names; 401 with
\* one detail for a token that does not decode, has no sub, or names no user.
Resolve_Select(w, op, token, new_username) ==
    /\ pc[w] = "idle"
    /\ LET payload == jwt_decode(token, clock)
           username == IF payload = {} THEN NoSubject
                       ELSE (CHOOSE p \in payload : TRUE).sub
           uid == user_by_username(usernames, username)
           l == [LocInit EXCEPT !.op = op, !.access = token,
                                !.new_username = new_username]
       IN  IF payload = {} \/ username = NoSubject \/ uid = NoUser
           THEN /\ resp' = Reply(w, l, "InvalidCredential",
                                 "Could not validate credentials", users, user_sessions)
                /\ access_tokens' = Resolved(token, "InvalidCredential")
                /\ UNCHANGED <<pc, loc>>
           ELSE IF ~users[uid].is_active
           THEN /\ resp' = Reply(w, [l EXCEPT !.uid = uid, !.pre = users[uid]],
                                 "InactiveUser", "Inactive user", users, user_sessions)
                /\ access_tokens' = Resolved(token, "InactiveUser")
                /\ UNCHANGED <<pc, loc>>
           ELSE /\ loc' = [loc EXCEPT ![w] =
                        [l EXCEPT
                           !.uid = uid, !.user = users[uid], !.loaded = users[uid],
                           !.pre = users[uid],
                           !.lock_expired = (users[uid].locked_until # NULL
                                              /\ users[uid].locked_until <= clock)]]
                /\ pc' = [pc EXCEPT ![w] = "me_unlock"]
                /\ resp' = NoResp
                /\ UNCHANGED access_tokens
    /\ UNCHANGED <<MAX_LOGIN_ATTEMPTS, usernames, reset_done, users, user_sessions,
                   password_reset_tokens, next_session, next_reset, clock, advances,
                   lineage, rot, fails>>

\* auth.py 132 / 168-181: unlock_account_if_expired, committed when the lock
\* had expired.
Resolve_Unlock(w) ==
    /\ pc[w] = "me_unlock"
    /\ LET l == loc[w]
           u == unlock_account_if_expired(l.user, clock)
           unlocked == u # l.user
       IN  /\ users' = [users EXCEPT ![l.uid] =
                   IF unlocked THEN Flush(@, l.loaded, u) ELSE @]
           /\ loc' = [loc EXCEPT ![w].user = u, ![w].expired = unlocked]
           /\ fails' = [fails EXCEPT ![l.uid].n = IF unlocked THEN 0 ELSE @]
    /\ pc' = [pc EXCEPT ![w] = "me_check"]
    /\ resp' = NoResp
    /\ UNCHANGED <<MAX_LOGIN_ATTEMPTS, usernames, access_tokens, reset_done, user_sessions,
                   password_reset_tokens, next_session, next_reset, clock, advances,
                   requests, lineage, rot>>

\* auth.py 135-142: the lock check; the user is returned to the endpoint.
Resolve_Check(w) ==
    /\ pc[w] = "me_check"
    /\ LET l == loc[w]
           u == Current(l)
       IN  IF is_account_locked(u, clock)
           THEN /\ resp' = Reply(w, l, "AccountLocked", "Account temporarily locked",
                                 users, user_sessions)
                /\ access_tokens' = Resolved(l.access, "AccountLocked")
                /\ pc' = [pc EXCEPT ![w] = "idle"]
                /\ loc' = [loc EXCEPT ![w] = LocInit]
           ELSE IF l.op = "me"
           THEN /\ resp' = Reply(w, l, "ok", "user", users, user_sessions)
                /\ access_tokens' = Resolved(l.access, "ok")
                /\ pc' = [pc EXCEPT ![w] = "idle"]
                /\ loc' = [loc EXCEPT ![w] = LocInit]
           ELSE /\ access_tokens' = Resolved(l.access, "ok")
                /\ pc' = [pc EXCEPT ![w] = "profile_select"]
                /\ loc' = [loc EXCEPT ![w].user = u, ![w].expired = FALSE]
                /\ resp' = NoResp
    /\ UNCHANGED <<MAX_LOGIN_ATTEMPTS, usernames, reset_done, users, user_sessions,
                   password_reset_tokens, next_session, next_reset, clock, advances,
                   requests, lineage, rot, fails>>

\* ------------------------------------------------- PATCH /users/profile
\* main.py 463-490: session.get the user, SELECT another user with the new
\* username; 400 when there is one.
Profile_Select(w) ==
    /\ pc[w] = "profile_select"
    /\ LET l == loc[w]
           row == users[l.uid]
       IN  IF \E v \in Users \ {l.uid} : usernames[v] = l.new_username
           THEN /\ resp' = Reply(w, l, "BadRequest", "Username already taken",
                                 users, user_sessions)
                /\ pc' = [pc EXCEPT ![w] = "idle"]
                /\ loc' = [loc EXCEPT ![w] = LocInit]
           ELSE /\ loc' = [loc EXCEPT ![w].user = row, ![w].loaded = row]
                /\ pc' = [pc EXCEPT ![w] = "profile_commit"]
                /\ resp' = NoResp
    /\ UNCHANGED <<MAX_LOGIN_ATTEMPTS, usernames, access_tokens, reset_done, users,
                   user_sessions, password_reset_tokens, next_session, next_reset, clock,
                   advances, requests, lineage, rot, fails>>

\* main.py 492-538: user.username = value.strip(), committed.
Profile_Commit(w) ==
    /\ pc[w] = "profile_commit"
    /\ usernames' = [usernames EXCEPT ![loc[w].uid] = loc[w].new_username]
    /\ resp' = Reply(w, loc[w], "ok", "profile", users, user_sessions)
    /\ pc' = [pc EXCEPT ![w] = "idle"]
    /\ loc' = [loc EXCEPT ![w] = LocInit]
    /\ UNCHANGED <<MAX_LOGIN_ATTEMPTS, access_tokens, reset_done, users, user_sessions,
                   password_reset_tokens, next_session, next_reset, clock, advances,
                   requests, lineage, rot, fails>>

LoginStart(w) ==
    \E username \in Users \cup {NoUser}, password \in Passwords :
        Login_Select(w, username, password)

LoginStep(w) ==
    \/ Login_Unlock(w)
    \/ Login_Verify(w)
    \/ Login_Lock(w)
    \/ Login_LockReply(w)
    \/ Login_CreateSession(w)
    \/ Login_Cleanup(w)

\* The plaintext an account's stored digest was made from.
PasswordOf(username) ==
    IF username \in Users THEN users[username].hashed_password[2]
    ELSE RegisteredPassword

\* A login that carries the account's password.
LoginStartCorrect(w) ==
    \E username \in Users \cup {NoUser} :
        Login_Select(w, username, PasswordOf(username))

\* The steps of a login whose password verifies.
LoginStepVerified(w) ==
    \/ Login_Unlock(w)
    \/ Login_Verify(w)
    \/ Login_CreateSession(w)
    \/ Login_Cleanup(w)

RefreshStart(w) ==
    \E token \in RefreshTokens : Refresh_Validate(w, token)

RefreshStep(w) ==
    \/ Refresh_User(w)
    \/ Refresh_Blacklist(w)
    \/ Refresh_CreateSession(w)
    \/ Refresh_Cleanup(w)

LogoutRequest(w) ==
    \E token \in RefreshTokens : Logout(w, token)

ForgotStart(w) ==
    \E email \in Users \cup {NoUser} : Forgot_Select(w, email)

ForgotStep(w) ==
    \/ Forgot_Existing(w)
    \/ Forgot_Commit(w)
    \/ Forgot_Cleanup(w)

ResetStart(w) ==
    \E token \in ResetTokens, new_password \in NewPasswords :
        Reset_Validate(w, token, new_password)

ResetStep(w) ==
    \/ Reset_User(w)
    \/ Reset_Mark(w)
    \/ Reset_Sessions(w)
    \/ Reset_Commit(w)

\* The pool takes one more request; one behaviour has at most MaxRequests of
\* them.  Requests served one after another are not counted.
Take ==
    /\ requests < MaxRequests
    /\ requests' = requests + 1

\* A request that presents a bearer token: GET or PATCH /users/profile.
ResolveStart(w) ==
    \E op \in ResolveOps, token \in DOMAIN access_tokens \cup ForgedTokens,
       new_username \in Usernames :
        /\ op = "me" => new_username = "carol"
        /\ Resolve_Select(w, op, token, new_username)

ResolveStep(w) ==
    \/ Resolve_Unlock(w)
    \/ Resolve_Check(w)
    \/ Profile_Select(w)
    \/ Profile_Commit(w)

\* A login under any username.
LoginStartNamed(w) ==
    \E username \in Usernames, password \in Passwords :
        Login_Select(w, username, password)

\* Logins only, one request at a time.
NextLoginSeq ==
    \/ LoginStart(SeqWorker) /\ UNCHANGED requests
    \/ LoginStep(SeqWorker)
    \/ AdvanceClock

SpecLoginSeq == Init /\ [][NextLoginSeq]_vars

\* Logins only, served by the pool.
NextLogin ==
    \/ Take /\ \E w \in Workers : LoginStart(w)
    \/ \E w \in Workers : LoginStep(w)
    \/ AdvanceClock

SpecLogin == Init /\ [][NextLogin]_vars

\* Login with the right password, refresh, logout and the sweep, one request
\* at a time.
NextSessionSeq ==
    \/ LoginStartCorrect(SeqWorker) /\ UNCHANGED requests
    \/ LoginStepVerified(SeqWorker)
    \/ RefreshStart(SeqWorker) /\ UNCHANGED requests
    \/ RefreshStep(SeqWorker)
    \/ LogoutRequest(SeqWorker) /\ UNCHANGED requests
    \/ CleanupSessions(SeqWorker) /\ UNCHANGED requests
    \/ AdvanceClock

SpecSessionSeq == Init /\ [][NextSessionSeq]_vars

\* Login with the right password, refresh and logout, served by the pool.
NextSession ==
    \/ Take /\ \E w \in Workers : LoginStartCorrect(w)
    \/ \E w \in Workers : LoginStepVerified(w)
    \/ Take /\ \E w \in Workers : RefreshStart(w)
    \/ \E w \in Workers : RefreshStep(w)
    \/ Take /\ \E w \in Workers : LogoutRequest(w)
    \/ AdvanceClock

SpecSession == Init /\ [][NextSession]_vars

\* Login with the right password, the reset request and the reset, one
\* request at a time.
NextResetSeq ==
    \/ LoginStartCorrect(SeqWorker) /\ UNCHANGED requests
    \/ LoginStepVerified(SeqWorker)
    \/ ForgotStart(SeqWorker) /\ UNCHANGED requests
    \/ ForgotStep(SeqWorker)
    \/ ResetStart(SeqWorker) /\ UNCHANGED requests
    \/ ResetStep(SeqWorker)
    \/ AdvanceClock

SpecResetSeq == Init /\ [][NextResetSeq]_vars

\* The reset request and the reset, served by the pool.
NextReset ==
    \/ Take /\ \E w \in Workers : ForgotStart(w)
    \/ \E w \in Workers : ForgotStep(w)
    \/ Take /\ \E w \in Workers : ResetStart(w)
    \/ \E w \in Workers : ResetStep(w)
    \/ AdvanceClock

SpecReset == Init /\ [][NextReset]_vars

\* ------------------------------------------------------- claims: lockout
\* C4: after MAX_LOGIN_ATTEMPTS consecutive wrong-password logins of a user,
\* a login answered within the lockout window that the last of them opened is
\* answered AccountLocked, whatever password it carries.
C4_LockedAfterMaxFailures ==
    (/\ resp.op = "login"
     /\ resp.uid \in Users
     /\ resp.prior_fails >= MAX_LOGIN_ATTEMPTS
     /\ resp.in_window)
    => resp.kind = "AccountLocked"

\* C5: a login with a wrong password for an existing, unlocked user leaves the
\* stored failed_login_attempts one higher than the request found it.
C5_FailedLoginPersistsCounter ==
    (/\ resp.op = "login"
     /\ resp.wrong_pw
     /\ resp.pre.locked_until = NULL)
    => resp.post.failed_login_attempts = resp.pre.failed_login_attempts + 1

\* C6: a login with the correct password that starts when the account's lock
\* has run out (now >= locked_until) succeeds and leaves failed_login_attempts
\* = 0 and locked_until null.
C6_LoginAfterLockExpiry ==
    (/\ resp.op = "login"
     /\ resp.pw_ok
     /\ resp.lock_expired)
    => /\ resp.kind = "ok"
       /\ resp.post.failed_login_attempts = 0
       /\ resp.post.locked_until = NULL

C6_Witness ==
    /\ resp.op = "login"
    /\ resp.pw_ok
    /\ resp.lock_expired
    /\ resp.pre.failed_login_attempts > 0
    /\ resp.kind = "ok"

\* C7: when two wrong-password logins of one user overlap, then once both
\* have been answered the stored counter is two higher than the lower value
\* they read, or the account is locked.
C7_NoLostCounterUpdate ==
    (/\ resp.op = "login"
     /\ resp.wrong_pw
     /\ resp.peer_wrong)
    => \/ resp.post.failed_login_attempts >= resp.base + 2
       \/ resp.post.locked_until # NULL


\* ------------------------------------------------------ claims: rotation
\* C1: with requests served one after another, a refresh token is rotated at
\* most once, every presentation after its rotation is answered
\* InvalidCredential, and its first presentation is answered with a new pair
\* when the session is active and unexpired and its user active and unlocked.
C1_RefreshTokenSingleUse ==
    \A t \in DOMAIN rot :
        /\ rot[t].ok <= 1
        /\ rot[t].after \subseteq {"InvalidCredential"}
        /\ rot[t].first_valid => rot[t].first = "ok"

C1_Witness ==
    \E t \in DOMAIN rot :
        /\ lineage[t] = t
        /\ rot[t].first_valid
        /\ rot[t].ok = 1
        /\ "InvalidCredential" \in rot[t].after

\* C2: of the refresh requests that present one token, whatever their
\* interleaving, at most one is answered with a new token pair.
C2_OneRefreshWins ==
    \A t \in DOMAIN rot : rot[t].ok <= 1

\* C3: at most one active, unexpired refresh session descends from any one
\* login.
C3_OneLiveSessionPerLogin ==
    \A r \in DOMAIN lineage :
        Cardinality({s \in user_sessions :
                        /\ lineage[s.refresh_token] = r
                        /\ s.is_active
                        /\ s.expires_at > clock}) <= 1

\* -------------------------------------------------- claims: password reset
\* C8: a completed password reset leaves no refresh session of that user that
\* validate_refresh_token accepts: every session of the user that validated
\* immediately before the completion fails validation after it, and the
\* sessions of the other users are as they were.
C8_ResetInvalidatesSessions ==
    (/\ resp.op = "reset"
     /\ resp.kind = "ok")
    => /\ \A s \in resp.sess_pre :
            (/\ s.user_id = resp.uid
             /\ validate_refresh_token(resp.sess_pre, s.refresh_token, clock) # {})
            => validate_refresh_token(user_sessions, s.refresh_token, clock) = {}
       /\ {s \in user_sessions : s.user_id # resp.uid}
            = {s \in resp.sess_pre : s.user_id # resp.uid}

C8_Witness ==
    /\ resp.op = "reset"
    /\ resp.kind = "ok"
    /\ \E s \in resp.sess_pre :
          /\ s.user_id = resp.uid
          /\ validate_refresh_token(resp.sess_pre, s.refresh_token, clock) # {}
    /\ \E s \in user_sessions :
          /\ s.user_id # resp.uid
          /\ validate_refresh_token(user_sessions, s.refresh_token, clock) # {}

\* C9: with requests served one after another, when a reset request of a user
\* has issued a token, no token issued to that user earlier validates any
\* more, and the token just issued validates (as long as it has not expired).
C9_SecondRequestInvalidatesFirst ==
    (/\ resp.op = "forgot"
     /\ resp.issued # NULL)
    => /\ \A t \in password_reset_tokens :
            (t.user_id = resp.uid /\ t.token # resp.issued)
            => validate_password_reset_token(password_reset_tokens, t.token, clock) = {}
       /\ resp.in_window
            => validate_password_reset_token(password_reset_tokens, resp.issued, clock) # {}

C9_Witness ==
    /\ resp.op = "forgot"
    /\ resp.issued # NULL
    /\ resp.in_window
    /\ \E t \in resp.rows :
          /\ t.user_id = resp.uid
          /\ t.token # resp.issued
          /\ \E r \in password_reset_tokens :
                r.token = t.token /\ r.is_used /\ r.expires_at > clock

\* C10: in every state, requests served concurrently included, a user has at
\* most one password-reset token that is unused and unexpired.
C10_OneLiveResetTokenPerUser ==
    \A u \in Users :
        Cardinality({t \in password_reset_tokens :
                        t.user_id = u /\ ~t.is_used /\ t.expires_at > clock}) <= 1

\* C11: with requests served one after another, once a reset with token T has
\* completed, every later reset that presents T is answered 'Invalid or
\* expired password reset token' and changes no user row (the password hash
\* stays as it was).
C11_ResetTokenSingleUse ==
    [][(/\ resp'.op = "reset"
        /\ resp'.token \in reset_done)
       => /\ resp'.kind = "InvalidToken"
          /\ resp'.detail = "Invalid or expired password reset token"
          /\ users' = users]_vars

C11_Witness ==
    /\ resp.op = "reset"
    /\ resp.token \in reset_done
    /\ resp.kind = "InvalidToken"
    /\ \E t \in password_reset_tokens : t.token = resp.token /\ t.expires_at > clock

\* ------------------------------------------------- claims: session frame
\* The step revokes the session with refresh token t: a logout that presents
\* t, or the revocation step of a refresh that presents t.
Revoking(t) ==
    \/ resp'.op = "logout" /\ resp'.token = t
    \/ \E w \in Workers :
          pc[w] = "refresh_blacklist" /\ pc'[w] = "refresh_create" /\ loc[w].token = t

\* C12: every login opens a session of its own, with a token no other session
\* has and valid next to the user's other sessions; and a logout or a rotation
\* of one session leaves every other valid session as it was (active, usable
\* for refresh).
C12_SessionsIndependent ==
    [][/\ \A s \in user_sessions :
            (/\ validate_refresh_token(user_sessions, s.refresh_token, clock) # {}
             /\ ~Revoking(s.refresh_token))
            => s \in user_sessions'
       /\ \A w \in Workers :
            (pc[w] = "login_create" /\ pc'[w] = "login_cleanup")
            => \E s \in user_sessions' :
                  /\ s.user_id = loc[w].uid
                  /\ \A r \in user_sessions : r.refresh_token # s.refresh_token
                  /\ validate_refresh_token(user_sessions', s.refresh_token, clock') # {}]_vars

C12_Witness ==
    /\ resp.op = "logout"
    /\ resp.kind = "ok"
    /\ \E s \in user_sessions, r \in user_sessions :
          /\ s.refresh_token = resp.token
          /\ ~s.is_active
          /\ r.user_id = s.user_id
          /\ r.refresh_token # s.refresh_token
          /\ lineage[s.refresh_token] = s.refresh_token
          /\ lineage[r.refresh_token] = r.refresh_token
          /\ validate_refresh_token(user_sessions, r.refresh_token, clock) # {}

\* ---------------------------------------------------- claims: enumeration
\* C13: a login that fails on a wrong password for an existing username is
\* answered exactly as a login for a username no account has: kind
\* InvalidCredential (401) with the detail 'Incorrect username or password'
\* and nothing else.
C13_NoUsernameEnumeration ==
    (/\ resp.op = "login"
     /\ resp.wrong_pw)
    => /\ resp.kind = "InvalidCredential"
       /\ resp.detail = "Incorrect username or password"
       /\ resp.remaining = 0

\* C14: with requests served one after another, every reset request is
\* answered with the one message, whether its email belongs to no account, to
\* an inactive account or to an active one; a token is issued exactly when the
\* account is active, and otherwise the table of reset tokens is unchanged.
C14_ResetRequestUniform ==
    [][resp'.op = "forgot"
       => /\ resp'.kind = "ok"
          /\ resp'.detail =
               "If an account with that email exists, a password reset link has been sent."
          /\ resp'.remaining = 0
          /\ resp'.issued # NULL <=> (resp'.uid \in Users /\ users[resp'.uid].is_active)
          /\ resp'.issued = NULL => password_reset_tokens' = password_reset_tokens]_vars

C14_Witness ==
    /\ resp.op = "forgot"
    /\ resp.kind = "ok"
    /\ resp.uid \in Users
    /\ ~users[resp.uid].is_active
    /\ resp.issued = NULL
    /\ \E t \in password_reset_tokens : t.user_id # resp.uid

\* Logins and the requests that present their access tokens, one at a time.
NextAccess ==
    \/ Take /\ LoginStartNamed(SeqWorker)
    \/ LoginStep(SeqWorker)
    \/ Take /\ ResolveStart(SeqWorker)
    \/ ResolveStep(SeqWorker)
    \/ Take /\ RefreshStart(SeqWorker)
    \/ RefreshStep(SeqWorker)
    \/ Take /\ LogoutRequest(SeqWorker)
    \/ KeepAccessToken
    \/ AdvanceClock

SpecAccess == Init /\ [][NextAccess]_vars

\* Tokens issued and parsed, as functions of their arguments and the clock.
NextToken ==
    \/ \E sub \in Usernames, expires_delta \in TokenLifetimes :
          IssueToken(sub, expires_delta)
    \/ \E token \in DOMAIN access_tokens \cup ForgedTokens : ParseToken(token)
    \/ AdvanceClock

SpecToken == Init /\ [][NextToken]_vars

\* The step in which get_current_user decodes token t and looks its user up.
Resolving(t) ==
    \E w \in Workers :
        /\ pc[w] = "idle"
        /\ \/ resp'.worker = w /\ resp'.op \in ResolveOps /\ resp'.access = t
           \/ pc'[w] = "me_unlock" /\ loc'[w].access = t

\* The defects of a token at the instant now, with the usernames as stored.
TokenDefects(t, now, names) ==
    {d \in {"malformed", "bad signature", "expired", "no subject", "unknown subject"} :
        \/ d = "malformed" /\ t.form # "jwt"
        \/ d = "bad signature" /\ t.form = "jwt" /\ t.key # ServerKey
        \/ d = "expired" /\ t.exp # NULL /\ t.exp < now
        \/ d = "no subject" /\ t.sub = NoSubject
        \/ d = "unknown subject" /\ t.sub # NoSubject /\ \A u \in Users : names[u] # t.sub}

\* C15: a request whose bearer token is malformed, signed with another key,
\* expired, without subject, or names no stored user is answered 401 "Could not
\* validate credentials", the same for each defect, and stores nothing.
C15_UniformTokenFailure ==
    [][\A t \in DOMAIN access_tokens \cup ForgedTokens :
          (Resolving(t) /\ TokenDefects(t, clock, usernames) # {})
          => /\ resp'.op \in ResolveOps
             /\ resp'.kind = "InvalidCredential"
             /\ resp'.detail = "Could not validate credentials"
             /\ resp'.uid = NoUser
             /\ users' = users]_vars

\* An issued token that resolved its user and, expired, is refused.
C15_Witness ==
    /\ resp.op \in ResolveOps
    /\ resp.kind = "InvalidCredential"
    /\ resp.access \in DOMAIN access_tokens
    /\ "ok" \in access_tokens[resp.access].seen
    /\ TokenDefects(resp.access, clock, usernames) = {"expired"}

\* C16: a token issued for subject s with lifetime ttl parses to s at every
\* instant before issue + ttl, and does not parse at any instant after it.
C16_AccessTokenRoundTrip ==
    (/\ resp.op = "parse"
     /\ resp.access \in DOMAIN access_tokens)
    => LET i == access_tokens[resp.access]
       IN  /\ clock < i.at + i.ttl => (resp.kind = "ok" /\ resp.sub = resp.access.sub)
           /\ clock > i.at + i.ttl => resp.kind = "JWTError"

\* C17: a request that presents an access token some login or refresh issued
\* is refused as InvalidCredential only when the token has expired, and any
\* other answer is about the user the token was issued to.
C17_AccessTokenSurvives ==
    (/\ resp.op \in ResolveOps
     /\ resp.access \in DOMAIN access_tokens)
    => /\ resp.kind = "InvalidCredential" => resp.access.exp < clock
       /\ resp.kind # "InvalidCredential" => resp.uid \in access_tokens[resp.access].owners

\* C18: every answer of get_current_user to a token that names a stored user
\* follows the row as stored at that call: "Inactive user" while the account is
\* inactive, "Account temporarily locked" while locked_until is later than now,
\* and the user otherwise, whatever the same token was answered before.
C18_ResolveReadsStore ==
    (/\ resp.op \in ResolveOps
     /\ resp.uid \in Users
     /\ \/ resp.kind \in {"InactiveUser", "AccountLocked"}
        \/ resp.op = "me")
    => resp.kind =
         IF ~resp.post.is_active THEN "InactiveUser"
         ELSE IF resp.post.locked_until # NULL /\ resp.post.locked_until > clock
              THEN "AccountLocked"
              ELSE "ok"

\* A token refused while its account was locked resolves once the lock is over.
C18_Witness ==
    /\ resp.op = "me"
    /\ resp.kind = "ok"
    /\ resp.lock_expired
    /\ resp.access \in DOMAIN access_tokens
    /\ "AccountLocked" \in access_tokens[resp.access].seen
    /\ resp.access.exp > clock

\* C19: a logout that presents a refresh token whose session is already
\* revoked leaves the sessions as they are, the session inactive, and its
\* blacklist_refresh_token returns false: the logout is not answered
\* "Successfully logged out".
C19_RevokeTwiceReturnsFalse ==
    [][(/\ resp'.op = "logout"
        /\ \E s \in user_sessions : s.refresh_token = resp'.token /\ ~s.is_active)
       => /\ user_sessions' = user_sessions
          /\ \A s \in user_sessions' : s.refresh_token = resp'.token => ~s.is_active
          /\ resp'.kind # "ok"]_vars

\* The answers of the two operations that clear an expired lock, for a request
\* that found the lock of its account expired when it read the row.
AfterExpiredLock ==
    /\ resp.op \in {"login"} \cup ResolveOps
    /\ resp.uid \in Users
    /\ resp.lock_expired

\* C20 as stated: no login and no resolve-current-user that is evaluated at or
\* after locked_until is answered AccountLocked.
C20_NoLockedAnswerAfterExpiry ==
    AfterExpiredLock => resp.kind # "AccountLocked"

\* C20, amended: with requests served one after another, a login or a
\* resolve-current-user that finds the lock expired has cleared it, with the
\* counter at 0, before its lock check, and is not answered AccountLocked by
\* that check; it is answered AccountLocked only when it is a login whose
\* wrong password reaches the threshold again and sets a new, later lock.
C20_ExpiredLockCleared ==
    AfterExpiredLock
    => /\ resp.post.locked_until # resp.pre.locked_until
       /\ resp.detail # "Account temporarily locked"
       /\ resp.kind = "AccountLocked"
          => /\ resp.op = "login"
             /\ resp.wrong_pw
             /\ resp.detail = "Account locked due to too many failed login attempts"
             /\ resp.post.locked_until > resp.pre.locked_until
             /\ resp.post.failed_login_attempts >= MAX_LOGIN_ATTEMPTS
       /\ resp.kind # "AccountLocked"
          => /\ resp.post.locked_until = NULL
             /\ resp.post.failed_login_attempts = 0

\* A token's user resolved at the very instant its lock ends.
C20_Witness ==
    /\ AfterExpiredLock
    /\ resp.op = "me"
    /\ resp.kind = "ok"
    /\ resp.pre.locked_until = clock
    /\ resp.pre.failed_login_attempts > 0
    /\ resp.post.locked_until = NULL

\* C21: in every reachable state the stored failed_login_attempts of every
\* user is at least 0 and at most MAX_LOGIN_ATTEMPTS.
C21_CounterBounded ==
    \A u \in Users :
        /\ users[u].failed_login_attempts >= 0
        /\ users[u].failed_login_attempts <= MAX_LOGIN_ATTEMPTS

\* C22: with logins served one after another, a login whose password verifies
\* commits nothing before create_user_session, and that commit stores
\* failed_login_attempts = 0, locked_until = null and the new last_login
\* together with the new refresh session, whatever the counter was before.
C22_SuccessResetsLockout ==
    [][\A w \in Workers :
          /\ (pc[w] = "login_verify" /\ pc'[w] = "login_create")
             => /\ users' = users
                /\ user_sessions' = user_sessions
          /\ (pc[w] = "login_create" /\ pc'[w] = "login_cleanup")
             => /\ users'[loc[w].uid].failed_login_attempts = 0
                /\ users'[loc[w].uid].locked_until = NULL
                /\ users'[loc[w].uid].last_login = loc[w].user.last_login
                /\ users'[loc[w].uid].last_login # NULL
                /\ \E s \in user_sessions' \ user_sessions :
                      s.user_id = loc[w].uid /\ s.is_active]_vars

\* A login that succeeded on a row whose counter was not 0.
C22_Witness ==
    /\ resp.op = "login"
    /\ resp.kind = "ok"
    /\ resp.pre.failed_login_attempts > 0
    /\ resp.pre.locked_until # NULL
    /\ resp.post.failed_login_attempts = 0
    /\ resp.post.locked_until = NULL
    /\ resp.post.last_login # NULL
    /\ \E s \in user_sessions : s.refresh_token = resp.issued /\ s.user_id = resp.uid

\* The step is a sweep of the refresh sessions: the cleanup endpoint, or the
\* last statement of a login or of a refresh.
Sweeping ==
    \/ resp'.op = "cleanup"
    \/ \E w \in Workers :
          /\ pc[w] \in {"login_cleanup", "refresh_cleanup"}
          /\ pc'[w] = "idle"

\* C23: a sweep deletes exactly the sessions with expires_at <= now, active or
\* revoked, the cleanup endpoint reports their number, and no token validates
\* differently after the sweep than before it.
C23_SweepExact ==
    [][Sweeping
       => /\ user_sessions' = {s \in user_sessions : s.expires_at > clock}
          /\ resp'.op = "cleanup"
             => resp'.remaining = Cardinality(user_sessions \ user_sessions')
          /\ \A token \in RefreshTokens :
                validate_refresh_token(user_sessions', token, clock')
                  = validate_refresh_token(user_sessions, token, clock)]_vars

\* The cleanup endpoint has deleted a rotated session and one never presented.
C23_Witness ==
    /\ resp.op = "cleanup"
    /\ resp.remaining >= 2
    /\ \E t \in DOMAIN rot :
          /\ rot[t].ok >= 1
          /\ \A s \in user_sessions : s.refresh_token # t
    /\ \E t \in DOMAIN rot :
          /\ rot[t] = NotPresented
          /\ \A s \in user_sessions : s.refresh_token # t

\* Logins with any password, the reset request and the reset, one request at
\* a time.
NextRecoverSeq ==
    \/ Take /\ LoginStart(SeqWorker)
    \/ LoginStep(SeqWorker)
    \/ Take /\ ForgotStart(SeqWorker)
    \/ ForgotStep(SeqWorker)
    \/ Take /\ ResetStart(SeqWorker)
    \/ ResetStep(SeqWorker)
    \/ AdvanceClock

SpecRecoverSeq == Init /\ [][NextRecoverSeq]_vars

\* C24: with requests served one after another, a reset that is answered with
\* success leaves its user with the new password, failed_login_attempts = 0 and
\* locked_until = null; a login of that user that starts right after it reads
\* that row, and a login that reads such a row succeeds exactly when it carries
\* the password of the row.
C24_ResetClearsLockout ==
    [][\A w \in Workers :
          /\ (pc[w] = "reset_commit" /\ resp'.op = "reset" /\ resp'.kind = "ok")
             => /\ users'[loc[w].uid].hashed_password = get_password_hash(loc[w].password)
                /\ users'[loc[w].uid].failed_login_attempts = 0
                /\ users'[loc[w].uid].locked_until = NULL
          /\ (/\ resp.op = "reset" /\ resp.kind = "ok"
              /\ pc[w] = "idle" /\ pc'[w] = "login_unlock"
              /\ loc'[w].uid = resp.uid)
             => loc'[w].pre = resp.post
          /\ (/\ pc[w] \in LoginPcs /\ pc'[w] = "idle"
              /\ loc[w].pre.locked_until = NULL
              /\ loc[w].pre.failed_login_attempts = 0)
             => /\ resp'.op = "login"
                /\ (resp'.kind = "ok") <=> (loc[w].password = loc[w].pre.hashed_password[2])]_vars

\* A reset has succeeded on an account that was locked at that instant.
C24_Witness ==
    /\ resp.op = "reset"
    /\ resp.kind = "ok"
    /\ resp.pre.locked_until # NULL
    /\ resp.pre.locked_until > clock
    /\ resp.pre.failed_login_attempts > 0
    /\ resp.post.locked_until = NULL
    /\ resp.post.failed_login_attempts = 0
    /\ resp.post.hashed_password # resp.pre.hashed_password

\* C25: with requests served one after another, a refresh answered
\* InactiveUser or AccountLocked changes nothing in the store, no session is
\* minted and the presented session is still active; a refresh of a token that
\* is active and unexpired, of an active and unlocked user, is answered with a
\* new pair, whatever the token was answered before.
C25_RejectedRefreshKeepsState ==
    [][\A w \in Workers :
          /\ (/\ resp'.worker = w /\ resp'.op = "refresh"
              /\ resp'.kind \in {"InactiveUser", "AccountLocked"})
             => /\ users' = users
                /\ user_sessions' = user_sessions
                /\ password_reset_tokens' = password_reset_tokens
                /\ next_session' = next_session
                /\ \E s \in user_sessions' :
                      /\ s.refresh_token = resp'.token
                      /\ s.user_id = resp'.uid
                      /\ s.is_active
          /\ (pc[w] = "refresh_cleanup" /\ pc'[w] = "idle")
             => resp'.kind = "ok"
          /\ ~(/\ pc[w] = "idle" /\ Refreshable(resp'.token)
               /\ resp'.worker = w /\ resp'.op = "refresh")
          /\ (pc[w] = "refresh_user" /\ loc[w].valid)
             => pc'[w] \in {"refresh_user", "refresh_blacklist"}]_vars

\* A token answered AccountLocked first has been rotated later.
C25_Witness ==
    /\ resp.op = "refresh"
    /\ resp.kind = "ok"
    /\ resp.token \in DOMAIN rot
    /\ rot[resp.token].first = "AccountLocked"
    /\ rot[resp.token].ok = 1
    /\ \E s \in user_sessions : s.refresh_token = resp.issued /\ s.is_active

\* C26: with requests served one after another, a reset that presents a valid
\* token of an active user and a password the policy refuses is answered with
\* the policy violation and changes nothing: the user row, the reset tokens
\* (the presented one stays unused) and the refresh sessions are as before.  A
\* reset that presents such a token and an acceptable password goes on to
\* change the password, whatever the token was answered before.
C26_PolicyRejectionKeepsState ==
    [][\A w \in Workers :
          /\ (/\ pc[w] = "reset_user" /\ pc'[w] # "reset_user"
              /\ users[loc[w].uid].is_active
              /\ loc[w].password = WeakPassword)
             => /\ resp'.op = "reset"
                /\ resp'.kind = "PolicyViolation"
          /\ (resp'.worker = w /\ resp'.op = "reset" /\ resp'.kind = "PolicyViolation")
             => /\ users' = users
                /\ password_reset_tokens' = password_reset_tokens
                /\ user_sessions' = user_sessions
                /\ reset_done' = reset_done
                /\ \E t \in password_reset_tokens' :
                      t.token = resp'.token /\ ~t.is_used
          /\ (/\ pc[w] = "reset_user"
              /\ users[loc[w].uid].is_active
              /\ loc[w].password # WeakPassword)
             => pc'[w] \in {"reset_user", "reset_mark"}
          /\ (pc[w] = "reset_commit" /\ pc'[w] = "idle")
             => /\ resp'.kind = "ok"
                /\ users'[loc[w].uid].hashed_password = get_password_hash(loc[w].password)]_vars

\* A reset refused by the policy, on a locked account with an active session,
\* whose token is still unused and unexpired.
C26_Witness ==
    /\ resp.op = "reset"
    /\ resp.kind = "PolicyViolation"
    /\ resp.post = resp.pre
    /\ \E t \in password_reset_tokens :
          /\ t.token = resp.token
          /\ ~t.is_used
          /\ t.expires_at > clock
    /\ \E s \in user_sessions : s.user_id = resp.uid /\ s.is_active

\* C27: with logins served one after another, a login that reaches its lock
\* check while the account is locked (locked_until > now) is answered "Account
\* temporarily locked" whatever password it carries, and neither its unlock
\* step nor its lock check changes the user rows or the sessions: the counter,
\* locked_until and last_login stay and no session is created.
C27_LockedLoginChangesNothing ==
    [][\A w \in Workers :
          (/\ pc[w] \in {"login_unlock", "login_verify"}
           /\ pc'[w] # pc[w]
           /\ users[loc[w].uid].locked_until # NULL
           /\ users[loc[w].uid].locked_until > clock)
          => /\ users' = users
             /\ user_sessions' = user_sessions
             /\ next_session' = next_session
             /\ pc[w] = "login_verify"
                => /\ resp'.op = "login"
                   /\ resp'.kind = "AccountLocked"
                   /\ resp'.detail = "Account temporarily locked"
                   /\ resp'.post = resp'.pre]_vars

\* A login with the right password refused while the account is locked.
C27_Witness ==
    /\ resp.op = "login"
    /\ resp.kind = "AccountLocked"
    /\ resp.detail = "Account temporarily locked"
    /\ resp.pw_ok
    /\ resp.pre.locked_until > clock
    /\ resp.post = resp.pre
    /\ \A s \in user_sessions : s.user_id # resp.uid

\* Login with the right password, refresh, logout, the reset request and the
\* reset, served by the pool.
NextRevoke ==
    \/ Take /\ \E w \in Workers : LoginStartCorrect(w)
    \/ \E w \in Workers : LoginStepVerified(w)
    \/ Take /\ \E w \in Workers : RefreshStart(w)
    \/ \E w \in Workers : RefreshStep(w)
    \/ Take /\ \E w \in Workers : LogoutRequest(w)
    \/ Take /\ \E w \in Workers : ForgotStart(w)
    \/ \E w \in Workers : ForgotStep(w)
    \/ Take /\ \E w \in Workers : ResetStart(w)
    \/ \E w \in Workers : ResetStep(w)
    \/ AdvanceClock

SpecRevoke == Init /\ [][NextRevoke]_vars

\* The refresh tokens issued so far.
IssuedTokens == 1 .. (next_session - 1)

\* C28: in every step, an issued refresh token that fails validate_refresh_token
\* before the step fails it after the step, and no session row of an issued
\* token appears, becomes active again or gets a later expires_at.
C28_ValidityMonotone ==
    [][\A t \in IssuedTokens :
          /\ validate_refresh_token(user_sessions, t, clock) = {}
             => validate_refresh_token(user_sessions', t, clock') = {}
          /\ \A n \in user_sessions' :
                n.refresh_token = t
                => \E s \in user_sessions :
                      /\ s.refresh_token = t
                      /\ s.user_id = n.user_id
                      /\ n.expires_at <= s.expires_at
                      /\ n.is_active => s.is_active]_vars

\* A reset has just revoked a session while another issued token, rotated
\* earlier, is still revoked.
C28_Witness ==
    /\ resp.op = "reset"
    /\ resp.kind = "ok"
    /\ \E s \in user_sessions :
          /\ s.user_id = resp.uid
          /\ ~s.is_active
          /\ s.expires_at > clock
          /\ rot[s.refresh_token].ok = 0
    /\ \E t \in IssuedTokens :
          /\ rot[t].ok >= 1
          /\ validate_refresh_token(user_sessions, t, clock) = {}

\* C29: in the state in which complete-reset returns, the user has no refresh
\* session that validates and descends from a login whose session was created
\* before the reset committed the new password, requests served concurrently
\* included.
C29_NoOldSessionAfterReset ==
    (/\ resp.op = "reset"
     /\ resp.kind = "ok"
     /\ resp.minted > 0)
    => \A s \in user_sessions :
          (/\ s.user_id = resp.uid
           /\ lineage[s.refresh_token] < resp.minted)
          => validate_refresh_token(user_sessions, s.refresh_token, clock) = {}

\* A complete-reset of worker w that has committed a new password hash over
\* the one it read, presenting token t.
PasswordWritten(w, t) ==
    /\ pc[w] \in {"reset_sessions", "reset_commit"}
    /\ loc[w].token = t
    /\ loc[w].minted > 0
    /\ loc[w].user.hashed_password # loc[w].loaded.hashed_password

\* C30: of the complete-reset requests that present one reset token, requests
\* served concurrently included, at most one writes the user's password: no
\* two of them are past the commit of a new password at once, and none gets
\* there with a token that has already completed a reset.
C30_OneResetPerToken ==
    \A t \in ResetTokens :
        /\ \A w1, w2 \in Workers :
              (PasswordWritten(w1, t) /\ PasswordWritten(w2, t)) => w1 = w2
        /\ \A w \in Workers : PasswordWritten(w, t) => t \notin reset_done

====
